---- MODULE Spec2Model ----
(***************************************************************************)
(* Model of sherlock.py: the two-pass probe dispatch / classification loop *)
(* of sherlock(), get_response(), the worker pool of the futures session   *)
(* and the per-username loop of main().                                    *)
(***************************************************************************)
EXTENDS Integers, Sequences, FiniteSets, TLC

\* ------------------------------------------------------------------ bounds
\* Longest catalog explored by Spec.
MaxSites == 2
\* Number of usernames main() runs sherlock() for, one after another.
MaxRuns == 2
\* Most probes that may have completed on the pool without having been
\* awaited yet by the second pass (caps the explored schedules).
MaxAhead == 2
\* Services in the catalog of SpecPool beyond the worker limit.
PoolExtra == 1

\* --------------------------------------------------------- program constants
\* "Limit number of workers to 20."
WorkerLimit == 20

\* ------------------------------------------------------------------ helpers
\* Python's  needle in haystack  on strings (sequences of characters).
IsSubstring(needle, haystack) ==
    \E k \in 0..(Len(haystack) - Len(needle)) :
        \A j \in 1..Len(needle) : haystack[k + j] = needle[j]

\* ---------------------------------------------------------------- catalog
\* QueryStatus values; None is "no status stored yet".
None == "None"
CLAIMED == "Claimed"
AVAILABLE == "Available"
UNKNOWN == "Unknown"
ILLEGAL == "Illegal"
Verdicts == {CLAIMED, AVAILABLE, UNKNOWN, ILLEGAL}

KnownErrorTypes == {"status_code", "message", "response_url"}
\* "bogus" stands for any errorType string that is none of the three.
ErrorTypes == KnownErrorTypes \cup {"bogus"}

\* Usernames and the regexCheck patterns of the catalog.  "" is a falsy
\* regexCheck (no pattern declared).
Usernames == {"alice", "al.ce"}
RegexChecks == {"", "^[a-z]+$"}

\* re.search(pattern, username) is not None
re_search(pattern, uname) ==
    CASE pattern = "^[a-z]+$" -> uname = "alice"
      [] OTHER -> TRUE

\* errorMsg of the catalog entries.
ErrorMsg == <<"n", "f">>

\* net_info as main() hands it to sherlock(): request_future = 0 means the
\* key is absent, otherwise it is the run that stored the handle.
Descriptors ==
    [errorType : ErrorTypes, regexCheck : RegexChecks, errorMsg : {ErrorMsg},
     request_future : {0}]

RECURSIVE SeqsOf(_, _)
SeqsOf(S, n) ==
    IF n = 0 THEN {<<>>}
    ELSE {Append(s, d) : s \in SeqsOf(S, n - 1), d \in S}

Catalogs(maxLen) == UNION {SeqsOf(Descriptors, n) : n \in 1..maxLen}

\* A catalog larger than the worker limit: plain status_code services, and a
\* last one with a regexCheck and an unrecognised errorType.
PoolCatalog ==
    [k \in 1..(WorkerLimit + PoolExtra) |->
        [errorType |-> "status_code", regexCheck |-> "", errorMsg |-> ErrorMsg,
         request_future |-> 0]]
    \o << [errorType |-> "bogus", regexCheck |-> "^[a-z]+$", errorMsg |-> ErrorMsg,
           request_future |-> 0] >>

\* -------------------------------------------------------------- transport
\* What request_future.result() can produce: a response (exc = "") or a
\* raised exception of requests.exceptions.
Statuses == {199, 200, 299, 300, 404}
Bodies == {<<"x", "n", "f">>, <<"n", "x", "f">>}
Raised == {"HTTPError", "ProxyError", "ConnectionError", "ConnectTimeout",
           "ReadTimeout", "TooManyRedirects"}

Response(sc, body) == [exc |-> "", status_code |-> sc, text |-> body]
Exception(cls) == [exc |-> cls, status_code |-> 0, text |-> <<>>]
NoOutcome == [exc |-> "", status_code |-> 0, text |-> <<>>]

FullTransport ==
    {Response(sc, b) : sc \in Statuses, b \in Bodies} \cup {Exception(c) : c \in Raised}
CoarseTransport ==
    {Response(200, <<"x", "n", "f">>), Response(404, <<"n", "x", "f">>),
     Exception("ConnectTimeout")}
\* Every exception class next to two responses.
FailureTransport ==
    {Response(200, <<"x", "n", "f">>), Response(404, <<"n", "x", "f">>)}
        \cup {Exception(c) : c \in Raised}
PoolTransport == {Response(200, <<"x", "n", "f">>)}

\* Classes of requests.exceptions an exception of class cls is an instance of.
Bases(cls) ==
    CASE cls = "HTTPError" -> {"HTTPError", "RequestException"}
      [] cls = "ProxyError" -> {"ProxyError", "ConnectionError", "RequestException"}
      [] cls = "ConnectionError" -> {"ConnectionError", "RequestException"}
      [] cls = "ConnectTimeout" ->
            {"ConnectTimeout", "ConnectionError", "Timeout", "RequestException"}
      [] cls = "ReadTimeout" -> {"ReadTimeout", "Timeout", "RequestException"}
      [] cls = "TooManyRedirects" -> {"TooManyRedirects", "RequestException"}
      [] OTHER -> {cls}

\* ExceptClauses without the final catch-all clause.
ExceptClauses_no_catch_all ==
    << <<"HTTPError", "HTTP Error">>,
       <<"ProxyError", "Proxy Error">>,
       <<"ConnectionError", "Error Connecting">>,
       <<"Timeout", "Timeout Error">> >>

\* The except clauses of get_response, in source order: <<class, error_context>>.
ExceptClauses ==
    << <<"HTTPError", "HTTP Error">>,
       <<"ProxyError", "Proxy Error">>,
       <<"ConnectionError", "Error Connecting">>,
       <<"Timeout", "Timeout Error">>,
       <<"RequestException", "Unknown Error">> >>

\* Index of the first except clause that catches cls, 0 when none does.
FirstClause(cls) ==
    LET hits == {k \in 1..Len(ExceptClauses) : ExceptClauses[k][1] \in Bases(cls)}
    IN IF hits = {} THEN 0 ELSE CHOOSE k \in hits : \A m \in hits : k <= m

\* get_response: [r, error_context, propagated].  r = FALSE models
\* response = None; propagated = an exception no clause catches.
get_response(outcome) ==
    IF outcome.exc = ""
    THEN [has_r |-> TRUE,
          error_context |-> IF outcome.status_code # 0 THEN None
                            ELSE "General Unknown Error",
          propagated |-> FALSE]
    ELSE LET k == FirstClause(outcome.exc)
         IN [has_r |-> FALSE,
             error_context |-> IF k = 0 THEN "General Unknown Error"
                               ELSE ExceptClauses[k][2],
             propagated |-> k = 0]

\* ------------------------------------------------------- sherlock: helpers
\* max_workers_for without the limit of 20.
max_workers_unlimited(nsites) == nsites

\* max_workers of the futures session.
max_workers_for(nsites) ==
    IF nsites >= WorkerLimit THEN WorkerLimit ELSE nsites

\* regex_rejects with the sense of the match test inverted.
regex_rejects_inverted(net_info, uname) ==
    net_info.regexCheck # "" /\ re_search(net_info.regexCheck, uname)

\* "Don't make request if username is invalid for the site".
regex_rejects(net_info, uname) ==
    net_info.regexCheck # "" /\ ~re_search(net_info.regexCheck, uname)

\* session.head when only the status code is needed, else session.get.
request_method(errorType) ==
    IF errorType = "status_code" THEN "HEAD" ELSE "GET"

\* allow_redirects_for that lets every request follow redirects.
allow_redirects_always(errorType) == TRUE

allow_redirects_for(errorType) ==
    IF errorType = "response_url" THEN FALSE ELSE TRUE

\* message_verdict with the  not  dropped.
message_verdict_inverted(error, text) ==
    IF IsSubstring(error, text) THEN CLAIMED ELSE AVAILABLE

\* The three detection rules of the second pass.
message_verdict(error, text) ==
    IF ~IsSubstring(error, text) THEN CLAIMED ELSE AVAILABLE

\* status_code_verdict with the test parenthesised as  not (a >= 300 or a < 200).
status_code_verdict_2xx(sc) ==
    IF ~((sc >= 300) \/ (sc < 200)) THEN CLAIMED ELSE AVAILABLE

\* Python parses  not a >= 300 or a < 200  as  (not (a >= 300)) or (a < 200).
status_code_verdict(sc) ==
    IF (~(sc >= 300)) \/ (sc < 200) THEN CLAIMED ELSE AVAILABLE

response_url_verdict(sc) ==
    IF 200 <= sc /\ sc < 300 THEN CLAIMED ELSE AVAILABLE

\* classify with the errorType validated before the transport error is looked at.
classify_type_first(net_info, outcome) ==
    LET g == get_response(outcome)
        et == net_info.errorType
    IN  IF g.propagated \/ et \notin KnownErrorTypes
        THEN [raises |-> TRUE, status |-> None, context |-> None]
        ELSE IF g.error_context # None
        THEN [raises |-> FALSE, status |-> UNKNOWN, context |-> g.error_context]
        ELSE IF ~g.has_r
        THEN [raises |-> TRUE, status |-> None, context |-> None]
        ELSE IF et = "message"
        THEN [raises |-> FALSE, context |-> None,
              status |-> message_verdict(net_info.errorMsg, outcome.text)]
        ELSE IF et = "status_code"
        THEN [raises |-> FALSE, context |-> None,
              status |-> status_code_verdict(outcome.status_code)]
        ELSE [raises |-> FALSE, context |-> None,
              status |-> response_url_verdict(outcome.status_code)]

\* The if/elif chain that turns a resolved future into a QueryResult;
\* raises = an exception leaves sherlock().
classify(net_info, outcome) ==
    LET g == get_response(outcome)
        et == net_info.errorType
    IN  IF g.propagated
        THEN [raises |-> TRUE, status |-> None, context |-> None]
        ELSE IF g.error_context # None
        THEN [raises |-> FALSE, status |-> UNKNOWN, context |-> g.error_context]
        ELSE IF ~g.has_r
        THEN [raises |-> TRUE, status |-> None, context |-> None]
        ELSE IF et = "message"
        THEN [raises |-> FALSE, context |-> None,
              status |-> message_verdict(net_info.errorMsg, outcome.text)]
        ELSE IF et = "status_code"
        THEN [raises |-> FALSE, context |-> None,
              status |-> status_code_verdict(outcome.status_code)]
        ELSE IF et = "response_url"
        THEN [raises |-> FALSE, context |-> None,
              status |-> response_url_verdict(outcome.status_code)]
        ELSE [raises |-> TRUE, status |-> None, context |-> None]

\* http_status = r.status_code, or the placeholder "?" (0) without a response.
http_status_of(outcome) ==
    IF get_response(outcome).has_r THEN outcome.status_code ELSE 0

\* Console lines of the second pass for one classified service.
result_lines(site, status, found_only) ==
    CASE status = CLAIMED -> << [site |-> site, kind |-> "found"] >>
      [] status = AVAILABLE ->
            IF ~found_only THEN << [site |-> site, kind |-> "not_found"] >> ELSE <<>>
      [] status = UNKNOWN -> << [site |-> site, kind |-> "error"] >>
      [] status = ILLEGAL ->
            IF ~found_only THEN << [site |-> site, kind |-> "invalid"] >> ELSE <<>>
      [] OTHER -> <<>>

\* invalid_lines that ignores the found-only mode.
invalid_lines_always(site, found_only) ==
    << [site |-> site, kind |-> "invalid"] >>

\* Console line of the first pass for a service skipped as illegal.
invalid_lines(site, found_only) ==
    IF ~found_only THEN << [site |-> site, kind |-> "invalid"] >> ELSE <<>>

\* An insertion-ordered dict as a sequence of [key, value]:  d[key] = value
\* keeps the position of an existing key and appends a new one.
DictHas(d, key) == \E k \in 1..Len(d) : d[k].key = key
DictGet(d, key) == d[CHOOSE k \in 1..Len(d) : d[k].key = key].value
DictKeys(d) == [k \in 1..Len(d) |-> d[k].key]
\* An assignment that moves an existing key to the end (delete, then insert).
DictSet_move_to_end(d, key, value) ==
    SelectSeq(d, LAMBDA e : e.key # key) \o << [key |-> key, value |-> value] >>

DictSet(d, key, value) ==
    IF DictHas(d, key)
    THEN [k \in 1..Len(d) |-> IF d[k].key = key THEN [key |-> key, value |-> value]
                                ELSE d[k]]
    ELSE Append(d, [key |-> key, value |-> value])

\* -------------------------------------------------------------------- state
VARIABLES
    site_data,         \* the catalog: sequence of net_info, shared by all runs
    print_found_only,  \* args.print_found_only
    transport,         \* outcomes the network may produce for a probe
    run,               \* number of sherlock() calls started by main()
    username,          \* username of the current call
    pc,                \* "main", "dispatch", "await", "returned", "raised"
    idx,               \* position of the current pass in site_data
    max_workers,       \* worker limit of the current session
    futures,           \* per service: the future created by the current session
    results_total,     \* insertion-ordered dict: site -> results_site
    console            \* per-service lines printed by the current call

vars == <<site_data, print_found_only, transport, run, username, pc, idx,
          max_workers, futures, results_total, console>>

NoFuture ==
    [state |-> "none", method |-> "", allow_redirects |-> FALSE, outcome |-> NoOutcome]

NSites == Len(site_data)
Sites == 1..NSites

InitWith(catalogs, transports, foundOnly) ==
    /\ site_data \in catalogs
    /\ print_found_only \in foundOnly
    /\ transport \in transports
    /\ run = 0
    /\ username = ""
    /\ pc = "main"
    /\ idx = 0
    /\ max_workers = 0
    /\ futures = [k \in 1..Len(site_data) |-> NoFuture]
    /\ results_total = <<>>
    /\ console = <<>>

\* Catalogs of up to MaxSites services over a coarse network.
Init == InitWith(Catalogs(MaxSites), {CoarseTransport}, {FALSE})
\* One-service catalogs over the full network, both console modes.
InitClassify == InitWith(SeqsOf(Descriptors, 1), {FullTransport}, BOOLEAN)
\* Two-service catalogs over a network that can fail in every way.
InitFailures == InitWith(SeqsOf(Descriptors, 2), {FailureTransport}, {FALSE})
\* The catalog that exceeds the worker limit.
InitPool == InitWith({PoolCatalog}, {PoolTransport}, {FALSE})

\* ------------------------------------------------------------------ actions
\* main() calls sherlock() for the next username: session and pool are
\* created and results_total starts empty.
sherlock_begin(uname) ==
    /\ pc \in {"main", "returned"}
    /\ run < MaxRuns
    /\ run' = run + 1
    /\ username' = uname
    /\ max_workers' = max_workers_for(NSites)
    /\ futures' = [k \in Sites |-> NoFuture]
    /\ results_total' = <<>>
    /\ console' = <<>>
    /\ idx' = 1
    /\ pc' = "dispatch"
    /\ UNCHANGED <<site_data, print_found_only, transport>>

\* NextDispatch that leaves the first loop after its first iteration.
NextDispatch_break == idx' = 1 /\ pc' = "await"

\* End of one iteration of the first pass.
NextDispatch ==
    IF idx < NSites THEN idx' = idx + 1 /\ pc' = pc
    ELSE idx' = 1 /\ pc' = "await"

\* First pass, username rejected by regexCheck: no request is made.
dispatch_illegal ==
    /\ pc = "dispatch"
    /\ regex_rejects(site_data[idx], username)
    /\ console' = console \o invalid_lines(idx, print_found_only)
    /\ results_total' = DictSet(results_total, idx,
            [status |-> ILLEGAL, context |-> None, http_status |-> 0])
    /\ NextDispatch
    /\ UNCHANGED <<site_data, print_found_only, transport, run, username,
                   max_workers, futures>>

Running == {k \in Sites : futures[k].state = "running"}
Queued == {k \in Sites : futures[k].state = "queued"}
\* Futures the second pass has already waited for.
IsAwaited(k) == (pc = "await" /\ k < idx) \/ pc = "returned"
Ahead == {k \in Sites : futures[k].state = "done" /\ ~IsAwaited(k)}

\* State of a request just submitted to the pool: a free worker takes it at
\* once, otherwise it waits in the pool's queue.
submit_state(nrunning, limit) ==
    IF nrunning < limit THEN "running" ELSE "queued"

\* store_future that keeps a future already stored in net_info.
store_future_if_absent(net_info, r) ==
    IF net_info.request_future = 0 THEN [net_info EXCEPT !.request_future = r]
    ELSE net_info

\* net_info["request_future"] = future, for the future created by call r.
store_future(net_info, r) == [net_info EXCEPT !.request_future = r]

\* First pass, otherwise: the request is submitted to the pool and its
\* future stored in net_info.
dispatch_probe ==
    /\ pc = "dispatch"
    /\ ~regex_rejects(site_data[idx], username)
    /\ futures' = [futures EXCEPT ![idx] =
            [state |-> submit_state(Cardinality(Running), max_workers),
             method |-> request_method(site_data[idx].errorType),
             allow_redirects |-> allow_redirects_for(site_data[idx].errorType),
             outcome |-> NoOutcome]]
    /\ site_data' = [site_data EXCEPT ![idx] = store_future(site_data[idx], run)]
    /\ results_total' = DictSet(results_total, idx,
            [status |-> None, context |-> None, http_status |-> 0])
    /\ NextDispatch
    /\ UNCHANGED <<print_found_only, transport, run, username, max_workers, console>>

\* The request of worker k ends: a response (without body for HEAD) or an
\* exception; the worker then takes the oldest queued request, if any.
worker_complete(k, o) ==
    /\ futures[k].state = "running"
    /\ Cardinality(Ahead) < MaxAhead
    /\ LET queued == Queued
           oldest == IF queued = {} THEN 0
                     ELSE CHOOSE m \in queued : \A q \in queued : m <= q
       IN futures' = [m \in Sites |->
            IF m = k
            THEN [futures[m] EXCEPT !.state = "done",
                    !.outcome = IF o.exc = "" /\ futures[k].method = "HEAD"
                                THEN Response(o.status_code, <<>>) ELSE o]
            ELSE IF m = oldest
            THEN [futures[m] EXCEPT !.state = "running"]
            ELSE futures[m]]
    /\ UNCHANGED <<site_data, print_found_only, transport, run, username, pc, idx,
                   max_workers, results_total, console>>

\* NextAwait with the return inside the loop body.
NextAwait_return_in_loop == idx' = idx /\ pc' = "returned"

\* End of one iteration of the second pass; after the last one sherlock()
\* returns results_total.
NextAwait ==
    IF idx < NSites THEN idx' = idx + 1 /\ pc' = pc
    ELSE idx' = idx /\ pc' = "returned"

\* The future the second pass reads from net_info for position k.
future_of(k) ==
    IF site_data[k].request_future = run THEN futures[k]
    ELSE [state |-> "done", method |-> "", allow_redirects |-> FALSE,
          outcome |-> NoOutcome]

\* Second pass: a status is already stored, continue.
await_skip ==
    /\ pc = "await"
    /\ DictGet(results_total, idx).status # None
    /\ NextAwait
    /\ UNCHANGED <<site_data, print_found_only, transport, run, username,
                   max_workers, futures, results_total, console>>

\* await_classify without the test that no status is stored yet.
await_classify_no_status_test ==
    /\ pc = "await"
    /\ future_of(idx).state = "done"
    /\ LET o == future_of(idx).outcome
           c == classify(site_data[idx], o)
       IN  /\ ~c.raises
           /\ console' = console \o result_lines(idx, c.status, print_found_only)
           /\ results_total' = DictSet(results_total, idx,
                   [status |-> c.status, context |-> c.context,
                    http_status |-> http_status_of(o)])
    /\ NextAwait
    /\ UNCHANGED <<site_data, print_found_only, transport, run, username,
                   max_workers, futures>>

\* Second pass: wait for the future, classify, print, store.
await_classify ==
    /\ pc = "await"
    /\ DictGet(results_total, idx).status = None
    /\ future_of(idx).state = "done"
    /\ LET o == future_of(idx).outcome
           c == classify(site_data[idx], o)
       IN  /\ ~c.raises
           /\ console' = console \o result_lines(idx, c.status, print_found_only)
           /\ results_total' = DictSet(results_total, idx,
                   [status |-> c.status, context |-> c.context,
                    http_status |-> http_status_of(o)])
    /\ NextAwait
    /\ UNCHANGED <<site_data, print_found_only, transport, run, username,
                   max_workers, futures>>

\* Second pass: classification raises, the exception leaves sherlock() and
\* main().
await_raise ==
    /\ pc = "await"
    /\ DictGet(results_total, idx).status = None
    /\ future_of(idx).state = "done"
    /\ classify(site_data[idx], future_of(idx).outcome).raises
    /\ pc' = "raised"
    /\ UNCHANGED <<site_data, print_found_only, transport, run, username, idx,
                   max_workers, futures, results_total, console>>

Next ==
    \/ \E u \in Usernames : sherlock_begin(u)
    \/ dispatch_illegal
    \/ dispatch_probe
    \/ \E k \in Sites : \E o \in transport : worker_complete(k, o)
    \/ await_skip
    \/ await_classify
    \/ await_raise

Spec == Init /\ [][Next]_vars
SpecClassify == InitClassify /\ [][Next]_vars
SpecFailures == InitFailures /\ [][Next]_vars
SpecPool == InitPool /\ [][Next]_vars

\* ---------------------------------------------------------------- properties
Min(a, b) == IF a <= b THEN a ELSE b

\* The current call has finished the first-pass iteration of service k.
Dispatched(k) ==
    \/ pc = "dispatch" /\ k < idx
    \/ pc \in {"await", "returned", "raised"}

\* The entry of service k in results_total.
Entry(k) == DictGet(results_total, k)

\* The second pass has stored a verdict for the probed service k.
Classified(k) ==
    /\ pc \in {"await", "returned", "raised"}
    /\ futures[k].state = "done"
    /\ Entry(k).status # None

\* The probe of service k completed with a transport success / failure.
TransportOK(k) == futures[k].state = "done" /\ futures[k].outcome.exc = ""
TransportFailed(k) == futures[k].state = "done" /\ futures[k].outcome.exc # ""

\* The username fails the regexCheck that service k declares.
UsernameFails(k) ==
    site_data[k].regexCheck # "" /\ ~re_search(site_data[k].regexCheck, username)

C2_AlwaysFatalNeverUnknown ==
    \A k \in Sites :
        (site_data[k].errorType \notin KnownErrorTypes /\ Dispatched(k)
                /\ ~UsernameFails(k)) =>
            /\ pc # "returned"
            /\ Entry(k).status # UNKNOWN

\* C2 amended: a service of unrecognised errorType makes the run raise exactly
\* when it is probed and its probe completed with a transport success, and it
\* then has no verdict; with a transport failure it gets Unknown with the
\* failure category, and with a username failing its regexCheck it gets
\* Illegal, and the run goes on.
C2_FatalOnlyOnTransportSuccess ==
    /\ \A k \in Sites :
        (site_data[k].errorType \notin KnownErrorTypes /\ Dispatched(k)) =>
            /\ Entry(k).status \in {None, UNKNOWN, ILLEGAL}
            /\ (Entry(k).status = ILLEGAL) <=> UsernameFails(k)
            /\ (Entry(k).status = UNKNOWN) =>
                    (TransportFailed(k) /\ Entry(k).context # None)
            /\ (pc = "returned" /\ ~UsernameFails(k)) =>
                    (TransportFailed(k) /\ Entry(k).status = UNKNOWN)
            /\ (pc = "await" /\ k < idx /\ ~UsernameFails(k)) =>
                    (TransportFailed(k) /\ Entry(k).status = UNKNOWN)
    /\ (pc = "raised") =>
            /\ site_data[idx].errorType \notin KnownErrorTypes
            /\ ~UsernameFails(idx)
            /\ TransportOK(idx)
            /\ Entry(idx).status = None

\* C2 witness: the run raised at a probed service of unrecognised errorType
\* after an earlier such service got Unknown from a transport failure.
C2_Witness ==
    /\ pc = "raised"
    /\ site_data[idx].errorType \notin KnownErrorTypes
    /\ \E k \in Sites :
        /\ k < idx
        /\ site_data[k].errorType \notin KnownErrorTypes
        /\ Entry(k).status = UNKNOWN

\* The second pass has gone past service k.
Passed(k) == (pc = "await" /\ k < idx) \/ pc = "returned"

\* The exception class an error_context of get_response stands for.
CategoryClass(ctx) ==
    CASE ctx = "HTTP Error" -> "HTTPError"
      [] ctx = "Proxy Error" -> "ProxyError"
      [] ctx = "Error Connecting" -> "ConnectionError"
      [] ctx = "Timeout Error" -> "Timeout"
      [] ctx = "Unknown Error" -> "RequestException"
      [] OTHER -> "none"

\* State part of C3: verdicts of failed and of successful probes, and no raise
\* at a failed probe.
C3_Inv ==
    /\ \A k \in Sites :
        (Passed(k) /\ TransportFailed(k)) =>
            /\ Entry(k).status = UNKNOWN
            /\ CategoryClass(Entry(k).context) \in Bases(futures[k].outcome.exc)
    /\ \A k \in Sites :
        (Passed(k) /\ TransportOK(k) /\ site_data[k].errorType \in KnownErrorTypes) =>
            Entry(k).status \in {CLAIMED, AVAILABLE}
    /\ (pc = "raised") => ~TransportFailed(idx)

\* Step part of C3: what the second pass does at a failed probe.
C3_Step ==
    (/\ pc = "await"
     /\ Entry(idx).status = None
     /\ TransportFailed(idx)
     /\ <<pc, idx, results_total>>' # <<pc, idx, results_total>>) =>
        /\ pc' # "raised"
        /\ DictGet(results_total', idx).status = UNKNOWN
        /\ \A t \in Sites \ {idx} : DictGet(results_total', t) = DictGet(results_total, t)
        /\ futures' = futures

\* C3: a probe that ends in a transport failure of any kind gives its service
\* Unknown with a category of that failure, the run does not raise for it, a
\* service whose probe succeeded is still Claimed or Available, and the step
\* that classifies the failed probe changes no other service's entry.
C3_TransportFailureIsLocal == []C3_Inv /\ [][C3_Step]_vars

\* C3 witness: the run returned with one service Unknown from a transport
\* failure and another one classified from its response.
C3_Witness ==
    /\ pc = "returned"
    /\ \E k, t \in Sites :
        /\ TransportFailed(k) /\ Entry(k).status = UNKNOWN
        /\ futures[k].outcome.exc = "TooManyRedirects"
        /\ TransportOK(t) /\ Entry(t).status \in {CLAIMED, AVAILABLE}

\* C4: once the first pass has handled a service whose regexCheck the username
\* fails, its verdict is Illegal and stays so, no request of the current run
\* exists for it, and the requests made are exactly those of the other
\* services handled so far.
C4_IllegalNeverProbed ==
    /\ \A k \in Sites :
        (Dispatched(k) /\ UsernameFails(k)) =>
            /\ Entry(k).status = ILLEGAL
            /\ futures[k].state = "none"
            /\ site_data[k].request_future # run
    /\ {k \in Sites : futures[k].state # "none"}
            = {k \in Sites : Dispatched(k) /\ ~UsernameFails(k)}

\* C4 witness: the run returned with an Illegal service next to a probed one.
C4_Witness ==
    /\ pc = "returned"
    /\ \E k, t \in Sites :
        /\ UsernameFails(k) /\ Entry(k).status = ILLEGAL
        /\ k < t /\ futures[t].state = "done"

\* C10 as stated: a probe whose transport raises a timeout, read or connect,
\* gives Unknown with the timeout category and no other.
C10_TimeoutCategory ==
    \A k \in Sites :
        (Passed(k) /\ futures[k].state = "done"
            /\ futures[k].outcome.exc \in {"ReadTimeout", "ConnectTimeout"}) =>
            /\ Entry(k).status = UNKNOWN
            /\ Entry(k).context = "Timeout Error"

\* C5: when the run has returned, results_total has exactly one entry per
\* service of the catalog, Illegal ones included, every entry holds one of the
\* four verdicts, and every request the run made has completed.
C5_ReturnedResultComplete ==
    (pc = "returned") =>
        /\ Len(results_total) = NSites
        /\ \A k \in Sites :
            /\ Cardinality({p \in 1..Len(results_total) : results_total[p].key = k}) = 1
            /\ Entry(k).status \in Verdicts
            /\ futures[k].state \in {"none", "done"}

\* C5 witness: a run over a catalog with an Illegal and a probed service has
\* returned.
C5_Witness ==
    /\ pc = "returned"
    /\ NSites >= 2
    /\ \E k, t \in Sites :
        /\ Entry(k).status = ILLEGAL
        /\ Entry(t).status \in {CLAIMED, AVAILABLE, UNKNOWN}

\* C6: the keys of results_total are, in order, the services handled so far by
\* the first pass, and so the whole catalog in catalog order from the end of
\* the first pass to the return, whatever order the probes complete in.
C6_KeyOrderIsCatalogOrder ==
    /\ (pc \in {"dispatch", "await", "returned", "raised"}) =>
            \A p \in 1..Len(results_total) : results_total[p].key = p
    /\ (pc \in {"await", "returned"}) => Len(results_total) = NSites

\* C6 witness: the second pass starts while a later service's probe has
\* completed and an earlier one's is still running.
C6_Witness ==
    /\ pc = "await"
    /\ idx = 1
    /\ \E k, t \in Sites :
        /\ k < t
        /\ futures[k].state = "running"
        /\ futures[t].state = "done"

\* C7: a message service with a transport success is Available iff errorMsg is
\* a substring of the body and Claimed otherwise, for every status code.
C7_MessageVerdict ==
    \A k \in Sites :
        (site_data[k].errorType = "message" /\ Passed(k) /\ TransportOK(k)) =>
            /\ (Entry(k).status = AVAILABLE) <=>
                    IsSubstring(site_data[k].errorMsg, futures[k].outcome.text)
            /\ (Entry(k).status = CLAIMED) <=>
                    ~IsSubstring(site_data[k].errorMsg, futures[k].outcome.text)

\* C7 witness: a message service answered 200 with a body holding errorMsg
\* has been classified Available.
C7_Witness ==
    \E k \in Sites :
        /\ site_data[k].errorType = "message"
        /\ Passed(k) /\ TransportOK(k)
        /\ futures[k].outcome.status_code = 200
        /\ futures[k].outcome.text = <<"x", "n", "f">>
        /\ Entry(k).status = AVAILABLE

\* C8: a response_url service is requested with redirects disabled and every
\* other service with redirects enabled; with a transport success a
\* response_url service is Claimed if the status is in [200,300) and
\* Available otherwise.
C8_ResponseUrl ==
    \A k \in Sites :
        /\ (futures[k].state # "none") =>
                (futures[k].allow_redirects <=> site_data[k].errorType # "response_url")
        /\ (site_data[k].errorType = "response_url" /\ Passed(k) /\ TransportOK(k)) =>
                LET sc == futures[k].outcome.status_code
                IN  /\ (200 <= sc /\ sc < 300) => Entry(k).status = CLAIMED
                    /\ ~(200 <= sc /\ sc < 300) => Entry(k).status = AVAILABLE

\* C8 witness: a response_url service, requested without redirects and
\* answered 300, has been classified Available.
C8_Witness ==
    \E k \in Sites :
        /\ site_data[k].errorType = "response_url"
        /\ Passed(k) /\ TransportOK(k)
        /\ ~futures[k].allow_redirects
        /\ futures[k].outcome.status_code = 300
        /\ Entry(k).status = AVAILABLE

\* C9: at most min(20, number of services) requests are running on the pool at
\* any time, and a request waits in the queue only while that many are running.
C9_InFlightCeiling ==
    /\ Cardinality(Running) <= Min(20, NSites)
    /\ (Queued # {}) => Cardinality(Running) = Min(20, NSites)

\* C9 witness: 20 requests are running and one more waits in the queue.
C9_Witness ==
    /\ Cardinality(Running) = 20
    /\ Queued # {}

\* Step part of C11: within one call, a stored verdict is kept by every step,
\* and a status that changes goes from unset to one of the four verdicts.
C11_Step ==
    (run' = run) =>
        \A k \in Sites :
            DictHas(results_total, k) =>
                /\ DictHas(results_total', k)
                /\ (Entry(k).status # None) =>
                        DictGet(results_total', k) = Entry(k)
                /\ (Entry(k).status = None) =>
                        DictGet(results_total', k).status \in Verdicts \cup {None}

\* C11: within one run a service's verdict is set once and never changes: an
\* Illegal of the first pass is not classified again by the second pass, and a
\* probed service goes from unset to its final verdict in one step.
C11_VerdictSetOnce == [][C11_Step]_vars

\* C11 witness: the second pass has gone past an Illegal service and past a
\* probed service that it classified.
C11_Witness ==
    /\ pc \in {"await", "returned"}
    /\ \E k, t \in Sites :
        /\ Passed(k) /\ Entry(k).status = ILLEGAL
        /\ Passed(t) /\ Entry(t).status \in {CLAIMED, AVAILABLE, UNKNOWN}

\* C12 as stated: with found-only off, the per-service console lines of one
\* run appear in catalog order.
C12_ConsoleInCatalogOrder ==
    (~print_found_only) =>
        \A p, q \in 1..Len(console) :
            (p < q) => console[p].site < console[q].site

\* Number of console lines of the current call about service k.
LinesOf(k) == Cardinality({p \in 1..Len(console) : console[p].site = k})

\* The verdict of service k is final for the current call.
Settled(k) ==
    /\ Dispatched(k)
    /\ DictHas(results_total, k)
    /\ Entry(k).status \in Verdicts

C14_DispatchAllThenAwaitInOrder ==
    /\ (pc = "dispatch") =>
            \A k \in Sites :
                DictHas(results_total, k) => Entry(k).status \in {None, ILLEGAL}
    /\ (pc = "await") =>
            \A k \in Sites :
                /\ DictHas(results_total, k)
                /\ (~UsernameFails(k)) =>
                    /\ futures[k].state # "none"
                    /\ (Entry(k).status # None) <=> (k < idx)

\* C14 witness: the second pass has classified the first service while the
\* request of the second, submitted by the first pass, is not yet waited for.
C14_Witness ==
    /\ pc = "await"
    /\ idx = 2
    /\ Entry(1).status \in {CLAIMED, AVAILABLE, UNKNOWN}
    /\ futures[2].state # "none"
    /\ Entry(2).status = None

\* C15: in every call, a service without a stored status when the second pass
\* reaches it holds the future of that same call, every service classified by
\* the second pass holds the completed future of that call, and a service that
\* holds no future of the call (none, or one of an earlier call) is Illegal.
C15_AwaitedFutureIsOfThisRun ==
    /\ (pc = "await" /\ Entry(idx).status = None) =>
            site_data[idx].request_future = run
    /\ \A k \in Sites :
        (Dispatched(k) /\ DictHas(results_total, k)) =>
            /\ (Entry(k).status \in {CLAIMED, AVAILABLE, UNKNOWN}) =>
                    (site_data[k].request_future = run /\ futures[k].state = "done")
            /\ (site_data[k].request_future # run) => Entry(k).status = ILLEGAL

\* C15 witness: a later call has returned with a service Illegal that an
\* earlier call probed, next to a service it probed itself.
C15_Witness ==
    /\ pc = "returned"
    /\ run >= 2
    /\ \E k, t \in Sites :
        /\ site_data[k].request_future \notin {0, run}
        /\ Entry(k).status = ILLEGAL
        /\ site_data[t].request_future = run
        /\ Entry(t).status \in {CLAIMED, AVAILABLE, UNKNOWN}
====
